---- MODULE Spec2Model ----
(***************************************************************************)
(* Model of src/src/digest.py (hndaily): the SQLite story cache            *)
(* (Storage), the Hacker News feed client, the ranking step and the        *)
(* run_daily_digest pipeline.                                              *)
(*                                                                         *)
(* Four specifications share the variables:                               *)
(*   SpecStorage  arbitrary filter_known_stories / store_story calls       *)
(*   SpecRank     the ranking expression of run_daily_digest as a pure     *)
(*                function of its input list                               *)
(*   Spec         runs of run_daily_digest, one after the other            *)
(*   SpecConc     runs of run_daily_digest on two processes sharing the    *)
(*                cache file, interleaved at every statement that touches  *)
(*                the network or the database                              *)
(***************************************************************************)
EXTENDS Integers, Sequences, FiniteSets, TLC

\* ---------------------------------------------------------------- bounds
MaxId == 2          \* story ids are 1..MaxId
MaxTop == 2         \* longest top-stories list the feed returns (Spec)
MaxTopConc == 2     \* the same for the interleaved runs (SpecConc)
MaxRuns == 2        \* runs of run_daily_digest started in one behaviour
MaxQuery == 3       \* longest list handed to filter_known_stories (SpecStorage)
MaxRankLen == 3     \* longest exhaustively enumerated ranking input
MaxOver == 2        \* ranking inputs go up to N_TOP_STORIES + MaxOver
MaxSeed == 3        \* number of score patterns for the long ranking inputs

\* ------------------------------------------------------ program constants
N_TOP_STORIES == 50

Ids == 1..MaxId
Procs == {1, 2}

\* all sequences over S of length 0..n
RECURSIVE SeqsUpTo(_, _)
SeqsUpTo(S, n) ==
    IF n = 0 THEN {<<>>}
    ELSE LET shorter == SeqsUpTo(S, n - 1)
         IN  shorter \cup {Append(s, x) : s \in {t \in shorter : Len(t) = n - 1}, x \in S}

Range(s) == {s[k] : k \in 1..Len(s)}

Min(a, b) == IF a < b THEN a ELSE b

\* ------------------------------------------------------------- Storage
\* Python's repr of tuple(ids), as the token list that ends up in the SQL
\* text:  ()   (1,)   (1, 2, 3)
Tok(t, v) == [t |-> t, v |-> v]

RECURSIVE CommaJoin(_)
CommaJoin(ids) ==
    IF Len(ids) = 0 THEN <<>>
    ELSE IF Len(ids) = 1 THEN <<Tok("num", ids[1])>>
    ELSE <<Tok("num", ids[1]), Tok("comma", 0)>> \o CommaJoin(Tail(ids))

TupleRepr(ids) ==
    IF Len(ids) = 1
    THEN <<Tok("lp", 0), Tok("num", ids[1]), Tok("comma", 0), Tok("rp", 0)>>
    ELSE <<Tok("lp", 0)>> \o CommaJoin(ids) \o <<Tok("rp", 0)>>

\* SQLite's grammar for the right-hand side of IN: "(" [expr {"," expr}] ")".
\* The empty list is accepted, a trailing comma is a syntax error.
ParseInList(toks) ==
    IF Len(toks) < 2 \/ toks[1].t # "lp" \/ toks[Len(toks)].t # "rp"
    THEN [ok |-> FALSE, vals |-> {}]
    ELSE LET body == SubSeq(toks, 2, Len(toks) - 1)
         IN  IF body = <<>> THEN [ok |-> TRUE, vals |-> {}]
             ELSE IF /\ Len(body) % 2 = 1
                     /\ \A k \in 1..Len(body) :
                          body[k].t = (IF k % 2 = 1 THEN "num" ELSE "comma")
                  THEN [ok |-> TRUE,
                        vals |-> {body[k].v : k \in {j \in 1..Len(body) : j % 2 = 1}}]
                  ELSE [ok |-> FALSE, vals |-> {}]

RowIds(table) == {table[k].id : k \in 1..Len(table)}

RECURSIVE SelectIds(_, _)
SelectIds(table, vals) ==
    IF table = <<>> THEN <<>>
    ELSE (IF Head(table).id \in vals THEN <<Head(table).id>> ELSE <<>>)
         \o SelectIds(Tail(table), vals)

\* Storage.filter_known_stories: the query text is built from tuple(ids);
\* execute raises sqlite3.OperationalError when the text does not parse.
\* The rows come back in table order (the consumer only builds a set).
filter_known_stories(table, ids) ==
    LET q == ParseInList(TupleRepr(ids))
    IN  IF q.ok
        THEN [err |-> "none", ids |-> SelectIds(table, q.vals)]
        ELSE [err |-> "OperationalError", ids |-> <<>>]

\* the row written by the INSERT of store_story
RowOf(item) ==
    [id |-> item.id,
     title |-> item.title,
     url |-> IF "url" \in DOMAIN item THEN item.url ELSE "",
     score |-> item.score,
     comments |-> item.comments,
     published |-> item.time]

\* a plausible slip: INSERT OR REPLACE instead of a plain INSERT
store_story_replace(table, item) ==
    [err |-> "none",
     table |-> Append(SelectSeq(table, LAMBDA row : row.id # item.id), RowOf(item))]

\* a plausible slip: the id column declared without UNIQUE
store_story_nounique(table, item) ==
    [err |-> "none", table |-> Append(table, RowOf(item))]

\* a plausible slip: the INSERT is never committed
store_story_nocommit(table, item) ==
    IF item.id \in RowIds(table)
    THEN [err |-> "IntegrityError", table |-> table]
    ELSE [err |-> "none", table |-> table]

\* Storage.store_story on a table whose id column is UNIQUE
\* (_create_tables): a second row with the same id raises
\* sqlite3.IntegrityError and the statement changes nothing.
store_story(table, item) ==
    IF item.id \in RowIds(table)
    THEN [err |-> "IntegrityError", table |-> table]
    ELSE [err |-> "none", table |-> Append(table, RowOf(item))]

\* ---------------------------------------------------------- feed client
\* What the item endpoint serves for a story: two snapshots per id, one
\* with a url and one without (a text submission).  The endpoint answers
\* a request for an id with the item of that id.
StoryVariants == {1, 2}

ApiStory(id, v) ==
    IF v = 1
    THEN [id |-> id, type |-> "story", title |-> "a", url |-> "u",
          score |-> 1, descendants |-> 0, time |-> 10]
    ELSE [id |-> id, type |-> "story", title |-> "b",
          score |-> 0, descendants |-> 2, time |-> 20]

ApiOther(id) == [id |-> id, type |-> "comment"]

\* responses of requests.get: the call raises on a network error, or
\* returns a response that is not ok, or returns a JSON body
TopResponses(n) ==
    {[kind |-> "raise", body |-> <<>>], [kind |-> "notok", body |-> <<>>]}
    \cup {[kind |-> "ok", body |-> ids] : ids \in SeqsUpTo(Ids, n)}

ItemResponses(id) ==
    {[kind |-> "raise", body |-> ApiOther(id)], [kind |-> "notok", body |-> ApiOther(id)],
     [kind |-> "ok", body |-> ApiOther(id)]}
    \cup {[kind |-> "ok", body |-> ApiStory(id, v)] : v \in StoryVariants}

\* a plausible slip: the error branch hands back the (stale) body
get_top_story_ids_stale(resp) ==
    IF resp.kind = "raise" THEN [err |-> "ConnectionError", ids |-> <<>>]
    ELSE IF resp.kind = "notok" THEN [err |-> "none", ids |-> <<1, 2>>]
    ELSE [err |-> "none", ids |-> resp.body]

\* get_top_story_ids
get_top_story_ids(resp) ==
    IF resp.kind = "raise" THEN [err |-> "ConnectionError", ids |-> <<>>]
    ELSE IF resp.kind = "notok" THEN [err |-> "none", ids |-> <<>>]
    ELSE [err |-> "none", ids |-> resp.body]

\* the dictionary appended to stories in get_stories_for_ids
Article(item, hn_id) ==
    [k \in DOMAIN item \cup {"comments", "hnlink"} |->
        IF k = "comments" THEN item.descendants
        ELSE IF k = "hnlink" THEN <<"https://news.ycombinator.com/item?id=", hn_id>>
        ELSE item[k]]

\* one iteration of the loop of get_stories_for_ids
fetch_one(acc, hn_id, resp) ==
    IF resp.kind = "raise" THEN [err |-> "ConnectionError", stories |-> acc]
    ELSE IF resp.kind = "notok" THEN [err |-> "none", stories |-> acc]
    ELSE IF resp.body.type # "story" THEN [err |-> "none", stories |-> acc]
    ELSE [err |-> "none", stories |-> Append(acc, Article(resp.body, hn_id))]

\* ------------------------------------------------------------- ranking
Key(x) == x.score + x.comments

\* a plausible slip: an unstable sort that puts a later equal key first
RECURSIVE InsertDescUnstable(_, _)
InsertDescUnstable(s, x) ==
    IF s = <<>> THEN <<x>>
    ELSE IF Key(Head(s)) > Key(x) THEN <<Head(s)>> \o InsertDescUnstable(Tail(s), x)
    ELSE <<x>> \o s

\* sorted(..., reverse=True) is stable: x goes behind every element whose
\* key is at least its own
RECURSIVE InsertDesc(_, _)
InsertDesc(s, x) ==
    IF s = <<>> THEN <<x>>
    ELSE IF Key(Head(s)) >= Key(x) THEN <<Head(s)>> \o InsertDesc(Tail(s), x)
    ELSE <<x>> \o s

RECURSIVE SortInto(_, _)
SortInto(acc, rest) ==
    IF rest = <<>> THEN acc
    ELSE SortInto(InsertDesc(acc, Head(rest)), Tail(rest))

sorted_stories(new) == SortInto(<<>>, new)

\* sorted_stories[:N_TOP_STORIES]
top_sorted(new) ==
    LET s == sorted_stories(new) IN SubSeq(s, 1, Min(Len(s), N_TOP_STORIES))

\* prepare_daily_digest: the template rendered with the items and the date
Today == "today"
NoDoc == [items |-> <<>>, date |-> ""]
prepare_daily_digest(items) == [items |-> items, date |-> Today]

\* --------------------------------------------------------------- state
VARIABLES
    stories,              \* the rows of table stories, in insertion order
    lastOp, lastArg, lastRes, prevStories,   \* SpecStorage: the last call
    rankIn, rankOut, rankDone,               \* SpecRank
    pc,                   \* per process: position in run_daily_digest
    top_story_ids, known_story_ids, new_story_ids,
    acc,                  \* the list "stories" inside get_stories_for_ids
    new_stories, idx, top_sorted_stories, content,
    \* history of each process's current run, and of all runs
    startStories,         \* the table when the run opened it
    topStatus,            \* how the top-stories call ended
    fetchLog,             \* the item requests made: <<id, outcome>>
    storedBy,             \* ids whose store_story call the run made, in order
    renderCalls, sendCalls, sentDoc,
    abortAt,              \* where an exception left run_daily_digest
    digestCount,          \* per id: number of digests it was rendered into
    runsStarted, last

storageVars == <<lastOp, lastArg, lastRes, prevStories>>
rankVars == <<rankIn, rankOut, rankDone>>
localVars == <<top_story_ids, known_story_ids, new_story_ids, acc, new_stories,
               idx, top_sorted_stories, content>>
histVars == <<startStories, topStatus, fetchLog, storedBy, renderCalls, sendCalls,
              sentDoc, abortAt, digestCount, runsStarted, last>>
vars == <<stories, storageVars, rankVars, pc, localVars, histVars>>

InitStorageVars ==
    /\ lastOp = "none" /\ lastArg = <<>> /\ lastRes = [err |-> "none"]
    /\ prevStories = <<>>

InitRankVars == rankIn = <<>> /\ rankOut = <<>> /\ rankDone = FALSE

InitRunVars ==
    /\ pc = [r \in Procs |-> "idle"]
    /\ top_story_ids = [r \in Procs |-> <<>>]
    /\ known_story_ids = [r \in Procs |-> {}]
    /\ new_story_ids = [r \in Procs |-> <<>>]
    /\ acc = [r \in Procs |-> <<>>]
    /\ new_stories = [r \in Procs |-> <<>>]
    /\ idx = [r \in Procs |-> 1]
    /\ top_sorted_stories = [r \in Procs |-> <<>>]
    /\ content = [r \in Procs |-> NoDoc]
    /\ startStories = [r \in Procs |-> <<>>]
    /\ topStatus = [r \in Procs |-> "none"]
    /\ fetchLog = [r \in Procs |-> <<>>]
    /\ storedBy = [r \in Procs |-> <<>>]
    /\ renderCalls = [r \in Procs |-> 0]
    /\ sendCalls = [r \in Procs |-> 0]
    /\ sentDoc = [r \in Procs |-> NoDoc]
    /\ abortAt = [r \in Procs |-> "none"]
    /\ digestCount = [i \in Ids |-> 0]
    /\ runsStarted = 0
    /\ last = 1

\* ---------------------------------------------------------- SpecStorage
\* the records handed to store_story: the articles the feed client builds
StoreItems == {Article(ApiStory(id, v), id) : id \in Ids, v \in StoryVariants}
QueryLists == SeqsUpTo(Ids, MaxQuery)

StorageFilter ==
    \E q \in QueryLists :
        /\ lastOp' = "filter"
        /\ lastArg' = q
        /\ lastRes' = filter_known_stories(stories, q)
        /\ prevStories' = stories
        /\ UNCHANGED <<stories, rankVars, pc, localVars, histVars>>

StorageStore ==
    \E item \in StoreItems :
        LET res == store_story(stories, item)
        IN  /\ lastOp' = "store"
            /\ lastArg' = item
            /\ lastRes' = [err |-> res.err]
            /\ prevStories' = stories
            /\ stories' = res.table
            /\ UNCHANGED <<rankVars, pc, localVars, histVars>>

InitStorage == stories = <<>> /\ InitStorageVars /\ InitRankVars /\ InitRunVars
NextStorage == StorageFilter \/ StorageStore
SpecStorage == InitStorage /\ [][NextStorage]_vars

\* ------------------------------------------------------------- SpecRank
RankRecord(i, s, c) == [id |-> i, score |-> s, comments |-> c]

RECURSIVE ShortInputs(_)
ShortInputs(n) ==
    IF n = 0 THEN {<<>>}
    ELSE LET shorter == ShortInputs(n - 1)
         IN  shorter \cup
             {Append(t, RankRecord(n, s, c)) :
                 t \in {u \in shorter : Len(u) = n - 1}, s \in 0..1, c \in 0..2}

LongInput(n, seed) ==
    [i \in 1..n |-> RankRecord(i, (i * seed) % 3, (i + seed) % 2)]

RankInputs ==
    ShortInputs(MaxRankLen)
    \cup {LongInput(n, seed) :
            n \in (N_TOP_STORIES - 1)..(N_TOP_STORIES + MaxOver), seed \in 1..MaxSeed}

DoRank ==
    /\ ~rankDone
    /\ rankOut' = top_sorted(rankIn)
    /\ rankDone' = TRUE
    /\ UNCHANGED <<stories, storageVars, rankIn, pc, localVars, histVars>>

InitRank ==
    /\ stories = <<>> /\ InitStorageVars /\ InitRunVars
    /\ rankIn \in RankInputs /\ rankOut = <<>> /\ rankDone = FALSE
NextRank == DoRank
SpecRank == InitRank /\ [][NextRank]_vars

\* ----------------------------------------------------- run_daily_digest
Active(r) == pc[r] \notin {"idle", "completed", "aborted"}

\* load_dotenv, Storage(db_path): the table is created if absent, an
\* existing table is left as it is.  A process that has exited keeps no
\* state: what the finished runs left behind is cleared when a run starts.
Begin(r) ==
    /\ ~Active(r)
    /\ runsStarted < MaxRuns
    /\ runsStarted' = runsStarted + 1
    /\ last' = r
    /\ pc' = [o \in Procs |-> IF o = r THEN "top" ELSE IF Active(o) THEN pc[o] ELSE "idle"]
    /\ top_story_ids' = [o \in Procs |-> IF Active(o) THEN top_story_ids[o] ELSE <<>>]
    /\ known_story_ids' = [o \in Procs |-> IF Active(o) THEN known_story_ids[o] ELSE {}]
    /\ new_story_ids' = [o \in Procs |-> IF Active(o) THEN new_story_ids[o] ELSE <<>>]
    /\ acc' = [o \in Procs |-> IF Active(o) THEN acc[o] ELSE <<>>]
    /\ new_stories' = [o \in Procs |-> IF Active(o) THEN new_stories[o] ELSE <<>>]
    /\ idx' = [o \in Procs |-> IF Active(o) THEN idx[o] ELSE 1]
    /\ top_sorted_stories' = [o \in Procs |-> IF Active(o) THEN top_sorted_stories[o] ELSE <<>>]
    /\ content' = [o \in Procs |-> IF Active(o) THEN content[o] ELSE NoDoc]
    /\ startStories' = [o \in Procs |->
          IF o = r THEN stories ELSE IF Active(o) THEN startStories[o] ELSE <<>>]
    /\ topStatus' = [o \in Procs |-> IF Active(o) THEN topStatus[o] ELSE "none"]
    /\ fetchLog' = [o \in Procs |-> IF Active(o) THEN fetchLog[o] ELSE <<>>]
    /\ storedBy' = [o \in Procs |-> IF Active(o) THEN storedBy[o] ELSE <<>>]
    /\ renderCalls' = [o \in Procs |-> IF Active(o) THEN renderCalls[o] ELSE 0]
    /\ sendCalls' = [o \in Procs |-> IF Active(o) THEN sendCalls[o] ELSE 0]
    /\ sentDoc' = [o \in Procs |-> IF Active(o) THEN sentDoc[o] ELSE NoDoc]
    /\ abortAt' = [o \in Procs |-> IF Active(o) THEN abortAt[o] ELSE "none"]
    /\ UNCHANGED <<stories, storageVars, rankVars, digestCount>>

\* one process at a time (the deployment the program is written for)
StartSeq(r) == (\A o \in Procs : ~Active(o)) /\ Begin(r)

\* a second process may start while the first is running
StartConc(r) == Begin(r)

\* top_story_ids = get_top_story_ids(); the feed lists at most n ids
GetTopStoryIds(r, n) ==
    /\ pc[r] = "top"
    /\ \E resp \in TopResponses(n) :
        LET res == get_top_story_ids(resp)
        IN  /\ topStatus' = [topStatus EXCEPT ![r] = resp.kind]
            /\ IF res.err # "none"
               THEN /\ pc' = [pc EXCEPT ![r] = "aborted"]
                    /\ abortAt' = [abortAt EXCEPT ![r] = "get_top_story_ids"]
                    /\ UNCHANGED top_story_ids
               ELSE /\ pc' = [pc EXCEPT ![r] = "filter"]
                    /\ top_story_ids' = [top_story_ids EXCEPT ![r] = res.ids]
                    /\ UNCHANGED abortAt
    /\ UNCHANGED <<stories, storageVars, rankVars, known_story_ids, new_story_ids, acc,
                   new_stories, idx, top_sorted_stories, content, startStories, fetchLog,
                   storedBy, renderCalls, sendCalls, sentDoc, digestCount, runsStarted, last>>

\* a plausible slip: the known ids are not taken out of the list
NewStoryIdsAll(top, known) == top

\* new_story_ids = [id for id in top_story_ids if id not in known_story_ids]
NewStoryIds(top, known) == SelectSeq(top, LAMBDA id : id \notin known)

\* known_story_ids = set(storage.filter_known_stories(top_story_ids)) and
\* the list comprehension after it
FilterKnown(r) ==
    /\ pc[r] = "filter"
    /\ LET res == filter_known_stories(stories, top_story_ids[r])
       IN  IF res.err # "none"
           THEN /\ pc' = [pc EXCEPT ![r] = "aborted"]
                /\ abortAt' = [abortAt EXCEPT ![r] = "filter_known_stories"]
                /\ UNCHANGED <<known_story_ids, new_story_ids>>
           ELSE /\ pc' = [pc EXCEPT ![r] = "fetch"]
                /\ known_story_ids' = [known_story_ids EXCEPT ![r] = Range(res.ids)]
                /\ new_story_ids' = [new_story_ids EXCEPT ![r] =
                                        NewStoryIds(top_story_ids[r], Range(res.ids))]
                /\ UNCHANGED abortAt
    /\ UNCHANGED <<stories, storageVars, rankVars, top_story_ids, acc, new_stories, idx,
                   top_sorted_stories, content, startStories, topStatus, fetchLog, storedBy,
                   renderCalls, sendCalls, sentDoc, digestCount, runsStarted, last>>

Outcome(resp) ==
    IF resp.kind # "ok" THEN resp.kind
    ELSE IF resp.body.type = "story" THEN "story" ELSE "nonstory"

\* one iteration of the loop of get_stories_for_ids(new_story_ids)
FetchStory(r) ==
    /\ pc[r] = "fetch"
    /\ idx[r] <= Len(new_story_ids[r])
    /\ LET hn_id == new_story_ids[r][idx[r]]
       IN  \E resp \in ItemResponses(hn_id) :
            LET res == fetch_one(acc[r], hn_id, resp)
            IN  /\ fetchLog' = [fetchLog EXCEPT ![r] = Append(@, <<hn_id, Outcome(resp)>>)]
                /\ IF res.err # "none"
                   THEN /\ pc' = [pc EXCEPT ![r] = "aborted"]
                        /\ abortAt' = [abortAt EXCEPT ![r] = "get_stories_for_ids"]
                        /\ UNCHANGED <<acc, idx>>
                   ELSE /\ acc' = [acc EXCEPT ![r] = res.stories]
                        /\ idx' = [idx EXCEPT ![r] = @ + 1]
                        /\ UNCHANGED <<pc, abortAt>>
    /\ UNCHANGED <<stories, storageVars, rankVars, top_story_ids, known_story_ids,
                   new_story_ids, new_stories, top_sorted_stories, content, startStories,
                   topStatus, storedBy, renderCalls, sendCalls, sentDoc, digestCount,
                   runsStarted, last>>

\* return stories; new_stories = ...
FetchReturn(r) ==
    /\ pc[r] = "fetch"
    /\ idx[r] > Len(new_story_ids[r])
    /\ new_stories' = [new_stories EXCEPT ![r] = acc[r]]
    /\ idx' = [idx EXCEPT ![r] = 1]
    /\ pc' = [pc EXCEPT ![r] = "store"]
    /\ UNCHANGED <<stories, storageVars, rankVars, top_story_ids, known_story_ids,
                   new_story_ids, acc, top_sorted_stories, content, histVars>>

\* one iteration of: for article in new_stories: storage.store_story(article)
StoreStory(r) ==
    /\ pc[r] = "store"
    /\ idx[r] <= Len(new_stories[r])
    /\ LET article == new_stories[r][idx[r]]
           res == store_story(stories, article)
       IN  /\ storedBy' = [storedBy EXCEPT ![r] = Append(@, article.id)]
           /\ stories' = res.table
           /\ IF res.err # "none"
              THEN /\ pc' = [pc EXCEPT ![r] = "aborted"]
                   /\ abortAt' = [abortAt EXCEPT ![r] = "store_story"]
                   /\ UNCHANGED idx
              ELSE /\ idx' = [idx EXCEPT ![r] = @ + 1]
                   /\ UNCHANGED <<pc, abortAt>>
    /\ UNCHANGED <<storageVars, rankVars, top_story_ids, known_story_ids, new_story_ids,
                   acc, new_stories, top_sorted_stories, content, startStories, topStatus,
                   fetchLog, renderCalls, sendCalls, sentDoc, digestCount, runsStarted, last>>

\* sorted_stories, top_sorted_stories and the guard "if new_stories:"
RankStories(r) ==
    /\ pc[r] = "store"
    /\ idx[r] > Len(new_stories[r])
    /\ top_sorted_stories' = [top_sorted_stories EXCEPT ![r] = top_sorted(new_stories[r])]
    /\ pc' = [pc EXCEPT ![r] = IF new_stories[r] # <<>> THEN "prepare" ELSE "completed"]
    /\ UNCHANGED <<stories, storageVars, rankVars, top_story_ids, known_story_ids,
                   new_story_ids, acc, new_stories, idx, content, histVars>>

\* content = prepare_daily_digest(top_sorted_stories)
Prepare(r) ==
    /\ pc[r] = "prepare"
    /\ content' = [content EXCEPT ![r] = prepare_daily_digest(top_sorted_stories[r])]
    /\ renderCalls' = [renderCalls EXCEPT ![r] = @ + 1]
    /\ digestCount' = [i \in Ids |->
          IF \E k \in 1..Len(top_sorted_stories[r]) : top_sorted_stories[r][k].id = i
          THEN digestCount[i] + 1 ELSE digestCount[i]]
    /\ pc' = [pc EXCEPT ![r] = "send"]
    /\ UNCHANGED <<stories, storageVars, rankVars, top_story_ids, known_story_ids,
                   new_story_ids, acc, new_stories, idx, top_sorted_stories, startStories,
                   topStatus, fetchLog, storedBy, sendCalls, sentDoc, abortAt, runsStarted,
                   last>>

\* send_daily_digest(content): the provider accepts (202), answers with
\* another status that the client hands back (logged), or the client raises
SendOutcomes == {"accepted", "rejected", "raise"}

Send(r) ==
    /\ pc[r] = "send"
    /\ sendCalls' = [sendCalls EXCEPT ![r] = @ + 1]
    /\ sentDoc' = [sentDoc EXCEPT ![r] = content[r]]
    /\ \E out \in SendOutcomes :
        IF out = "raise"
        THEN /\ pc' = [pc EXCEPT ![r] = "aborted"]
             /\ abortAt' = [abortAt EXCEPT ![r] = "send_daily_digest"]
        ELSE /\ pc' = [pc EXCEPT ![r] = "completed"]
             /\ UNCHANGED abortAt
    /\ UNCHANGED <<stories, storageVars, rankVars, localVars, startStories, topStatus,
                   fetchLog, storedBy, renderCalls, digestCount, runsStarted, last>>

Step(r, n) ==
    \/ GetTopStoryIds(r, n)
    \/ FilterKnown(r)
    \/ FetchStory(r)
    \/ FetchReturn(r)
    \/ StoreStory(r)
    \/ RankStories(r)
    \/ Prepare(r)
    \/ Send(r)

InitRun == stories = <<>> /\ InitStorageVars /\ InitRankVars /\ InitRunVars

Next == \E r \in Procs : StartSeq(r) \/ Step(r, MaxTop)
Spec == InitRun /\ [][Next]_vars

NextConc == \E r \in Procs : StartConc(r) \/ Step(r, MaxTopConc)
SpecConc == InitRun /\ [][NextConc]_vars

\* ================================================================ claims
IsPrefix(s, t) == Len(s) <= Len(t) /\ SubSeq(t, 1, Len(s)) = s

Finished(r) == pc[r] \in {"completed", "aborted"}

FetchedIds(r) == {fetchLog[r][k][1] : k \in 1..Len(fetchLog[r])}

StoryFetched(r) == {fetchLog[r][k][1] : k \in {j \in 1..Len(fetchLog[r]) : fetchLog[r][j][2] = "story"}}

\* C1 (as claimed): for every stored id set A and every query list Q,
\* filter_known_stories(Q) returns without error and the ids it returns are
\* exactly Q intersected with A.  The code breaks this for a one-element Q.
C1_FilterReturnsIntersection ==
    lastOp = "filter" =>
        /\ lastRes.err = "none"
        /\ Range(lastRes.ids) = Range(lastArg) \cap RowIds(prevStories)

\* C2: store_story of a record whose id is already in the table raises
\* (IntegrityError reaches the caller) and leaves the table, and so the row
\* stored for that id, exactly as it was.
C2_DuplicateStoreFails ==
    (lastOp = "store" /\ lastArg.id \in RowIds(prevStories)) =>
        /\ lastRes.err = "IntegrityError"
        /\ stories = prevStories

\* a store of an id that is present with other column values
C2_Witness ==
    /\ lastOp = "store"
    /\ lastArg.id \in RowIds(prevStories)
    /\ RowOf(lastArg) \notin Range(prevStories)
    /\ lastRes.err = "IntegrityError"

\* C3: under any interleaving of two runs on the same cache the table holds
\* at most one row per id, and every step leaves the rows already stored in
\* place and unmodified (the table only grows at its end).
UniqueIds == \A i, j \in 1..Len(stories) : stories[i].id = stories[j].id => i = j

C3_UniqueAndImmutable == [](UniqueIds) /\ [][IsPrefix(stories, stories')]_vars

\* two overlapping runs both tried to store the same id; the second failed
C3_Witness ==
    \E r, o \in Procs :
        /\ r # o
        /\ abortAt[r] = "store_story"
        /\ storedBy[r] # <<>>
        /\ storedBy[r][Len(storedBy[r])] \in Range(storedBy[o])
        /\ \E k \in 1..Len(stories) : stories[k].id = storedBy[r][Len(storedBy[r])]

\* C4 (as claimed): a run that ends with no new records has made no render
\* and no send call; a run with at least one new record has rendered once
\* and sent once, the rendered document.  The code breaks the second half
\* when store_story raises.
C4_RenderSendIffNew ==
    \A r \in Procs :
        Finished(r) =>
            IF new_stories[r] = <<>>
            THEN renderCalls[r] = 0 /\ sendCalls[r] = 0
            ELSE renderCalls[r] = 1 /\ sendCalls[r] = 1 /\ sentDoc[r] = content[r]

\* C5: the ranked list is the input sorted by score + comments, descending,
\* equal keys in input order, cut to the first N_TOP_STORIES: the record at
\* input position i lands at 1 + (number of records with a larger key) +
\* (number of earlier records with the same key), if that is within the cut.
RankPos(in, i) ==
    1 + Cardinality({j \in 1..Len(in) : Key(in[j]) > Key(in[i])})
      + Cardinality({j \in 1..(i - 1) : Key(in[j]) = Key(in[i])})

C5_RankStableTruncated ==
    rankDone =>
        /\ Len(rankOut) = Min(Len(rankIn), N_TOP_STORIES)
        /\ \A i \in 1..Len(rankIn) :
              RankPos(rankIn, i) <= N_TOP_STORIES => rankOut[RankPos(rankIn, i)] = rankIn[i]

\* more than N_TOP_STORIES records with ties among them, reordered and cut
C5_Witness ==
    /\ rankDone
    /\ Len(rankIn) > N_TOP_STORIES
    /\ Len(rankOut) = N_TOP_STORIES
    /\ \E i, j \in 1..Len(rankIn) : i < j /\ Key(rankIn[i]) = Key(rankIn[j])
    /\ rankOut # SubSeq(rankIn, 1, N_TOP_STORIES)

\* C6 (as claimed): no run reaches an abort state, whatever the upstream
\* calls answer.  The code aborts on a one-element top list, on duplicate
\* ids, and on any raised network error.
C6_NoAbort == \A r \in Procs : pc[r] # "aborted"

\* C7: when the top-stories call answers with a non-success status the run
\* gets the empty list, does not abort, makes no store, render or send call
\* and leaves the table as it found it.
C7_TopFailureIsNoOp ==
    \A r \in Procs :
        topStatus[r] = "notok" =>
            /\ top_story_ids[r] = <<>>
            /\ pc[r] # "aborted"
            /\ fetchLog[r] = <<>>
            /\ storedBy[r] = <<>>
            /\ renderCalls[r] = 0
            /\ sendCalls[r] = 0
            /\ stories = startStories[r]

\* a run on a non-empty cache completed after a failed top-stories call
C7_Witness ==
    \E r \in Procs :
        /\ topStatus[r] = "notok"
        /\ pc[r] = "completed"
        /\ stories # <<>>

\* C8 (as claimed): once get_stories_for_ids has ended, every id of its
\* input was requested, in order, and the result holds, in input order,
\* exactly the ids whose request returned a story.  The code leaves the
\* loop, and the run, when a request raises.
RECURSIVE LogIds(_)
LogIds(log) == IF log = <<>> THEN <<>> ELSE <<Head(log)[1]>> \o LogIds(Tail(log))

C8_FetchNeverAborts ==
    \A r \in Procs :
        (\/ pc[r] \in {"store", "prepare", "send", "completed"}
         \/ abortAt[r] \in {"get_stories_for_ids", "store_story", "send_daily_digest"}) =>
            /\ LogIds(fetchLog[r]) = new_story_ids[r]
            /\ [k \in 1..Len(acc[r]) |-> acc[r][k].id]
                 = LogIds(SelectSeq(fetchLog[r], LAMBDA e : e[2] = "story"))

\* C9: a run never requests or stores an id that was in the cache when it
\* started; when it completes it has requested every other top id, and the
\* ids it added to the cache are exactly the top ids that were not in the
\* cache at the start and whose request returned a story.
C9_OnlyNewStored ==
    \A r \in Procs :
        LET start == RowIds(startStories[r])
        IN  /\ FetchedIds(r) \cap start = {}
            /\ Range(storedBy[r]) \cap start = {}
            /\ pc[r] = "completed" =>
                  /\ FetchedIds(r) = Range(top_story_ids[r]) \ start
                  /\ RowIds(stories) \ start = StoryFetched(r) \ start
                  /\ Range(storedBy[r]) = StoryFetched(r)

\* top ids [1, 2] with id 2 in the cache: only id 1 is requested, stored
\* and rendered
C9_Witness ==
    \E r \in Procs :
        /\ pc[r] = "completed"
        /\ top_story_ids[r] = <<1, 2>>
        /\ RowIds(startStories[r]) = {2}
        /\ fetchLog[r] = <<<<1, "story">>>>
        /\ RowIds(stories) = {1, 2}
        /\ Len(sentDoc[r].items) = 1 /\ sentDoc[r].items[1].id = 1

\* the scenario of the specification (needs three ids): top ids [1, 2, 3],
\* cache {2}, id 3 is not a story: only id 1 is stored and rendered
C9_Scenario ==
    \E r \in Procs :
        /\ pc[r] = "completed"
        /\ top_story_ids[r] = <<1, 2, 3>>
        /\ RowIds(startStories[r]) = {2}
        /\ fetchLog[r] = <<<<1, "story">>, <<3, "nonstory">>>>
        /\ RowIds(stories) = {1, 2}
        /\ Len(sentDoc[r].items) = 1 /\ sentDoc[r].items[1].id = 1

\* C10: over runs that do not overlap no id is rendered into more than one
\* digest, and when send_daily_digest is about to be called every record of
\* the digest is a row of the cache.
C10_DigestOnceStoredFirst ==
    /\ \A i \in Ids : digestCount[i] <= 1
    /\ \A r \in Procs :
          pc[r] = "send" =>
              \A k \in 1..Len(content[r].items) :
                  RowOf(content[r].items[k]) \in Range(stories)

\* a later run is about to send a digest although the feed listed an id
\* that an earlier digest already carried
C10_Witness ==
    \E r \in Procs :
        /\ pc[r] = "send"
        /\ content[r].items # <<>>
        /\ \E i \in Range(top_story_ids[r]) \cap RowIds(startStories[r]) : digestCount[i] = 1

====
